---- MODULE Spec2Model ----
(***************************************************************************)
(* Model of well-made-uk/image-optimizer.                                  *)
(*                                                                         *)
(* Client (src/src/main.js holds two builds of the page script):           *)
(*   build 1 = lines 1..295   (squoosh ImagePool, optimizeImageClientSide) *)
(*   build 2 = lines 297..515 (jsquash encode, getUniqueName, zip)         *)
(* Both builds share the same queue code (handleFiles / processNext).      *)
(*                                                                         *)
(* Server (request mode):                                                  *)
(*   "optimise" = src/netlify/functions/optimise.cjs                       *)
(*   "earlier"  = src/unnamed/part_000 lines 1..114                        *)
(*                                                                         *)
(* JavaScript is run-to-completion: one action of the model is one event   *)
(* handler, or one continuation of an async function from the settling of  *)
(* the promise it awaits up to the next await that does not settle         *)
(* immediately.  Sizes are byte counts.  Comparisons of the floating point *)
(* reduction 1 - a/b against a decimal threshold are done on the exact     *)
(* rationals.                                                              *)
(***************************************************************************)
EXTENDS Integers, Sequences, FiniteSets, TLC

VARIABLES
    variant,        \* which client build the page runs (1 or 2)
    fileQueue,      \* main.js:83 / 331   queue of { file, row }
    processing,     \* main.js:84 / 332
    rafPending,     \* number of requestAnimationFrame callbacks scheduled and not yet run
    task,           \* the processNext invocations suspended inside processFile, by row
    row,            \* text of each row's .opt-size cell ("none" before the row exists)
    processedFiles, \* main.js:9 processedFiles / main.js:309 zipFiles
    nextId,         \* identity of the next row createTableRow makes
    shown,          \* the size and percentage last written to an .opt-size cell
    starts,         \* per row, how many times processNext handed it to processFile
    phases,         \* history: the queue phases in which a handleFiles call has arrived
    downloadDisabled \* main.js:7 / 306   downloadAllBtn.disabled

clientVars == <<variant, fileQueue, processing, rafPending, task, row,
                processedFiles, nextId, shown, starts, phases, downloadDisabled>>

VARIABLES
    server,         \* which handler is deployed: "optimise" or "earlier"
    nodeEnv,        \* process.env.NODE_ENV
    hpc,            \* where the handler invocation is: "idle", "metadata", "pass1", "pass2", "done"
    event,          \* the request being handled
    clock,          \* milliseconds since the handler was invoked
    timerArmed,     \* the setTimeout of processWithTimeout is pending
    avifBuffer1,    \* length of the first encode's output (0 before it exists)
    adjustedQuality,\* quality of the second encode (0 before it is computed)
    codecCalls,     \* history: calls made to sharp (metadata and encodes)
    response        \* what the handler returned

serverVars == <<server, nodeEnv, hpc, event, clock, timerArmed, avifBuffer1,
                adjustedQuality, codecCalls, response>>

VARIABLES
    bitmap,         \* the decoded image one run of the normalizer is given
    norm            \* that run: how far it is, and what it has made

normVars == <<bitmap, norm>>

vars == <<clientVars, serverVars, normVars>>

----------------------------------------------------------------------------
(* Bounds of the model *)

\* rows (queue items) created over a run
MaxFiles == 2
\* files in one handleFiles call
MaxBatch == 2

\* byte sizes of files, canvas blobs and encoder outputs: around the 75 KiB floor
\* (76800) and giving pass-1 reductions of 0, 0.33, 0.4, 0.5, 0.6, 0.8 and negative ones
Sizes == {38400, 76800, 115200, 192000}

\* byte sizes of the files the user submits
FileSizes == {38400, 192000}

FileTypes == {"image/png", "image/svg+xml"}

\* names of the files the user submits, without the extension, as the parts an
\* underscore separates: every file is a photo.png or a photo.svg
FileStems == {<<"photo">>}

Rows == 1..MaxFiles

\* clock steps of a request, of TickMs milliseconds each
MaxTicks == 4
TickMs == 3000

\* pixels of the images whose alpha channel is scanned
MaxPixels == 2

\* widths and heights of decoded images, in pixels: below, at and above the
\* 2000 pixel bound
DimValues == {1, 1000, 2000, 2105, 3000, 4000}

\* values of a colour channel, and of the alpha channel, of a pixel
ColourValues == {0, 255}
AlphaValues == {0, 254, 255}

\* decoded body lengths of a request: 75 KiB, 187.5 KiB, 12 MiB
BodySizes == {76800, 192000, 12582912}

----------------------------------------------------------------------------
(* Program constants *)

Q1 == 70                    \* first pass quality
SecondPassMinQuality == 40
SecondPassMaxQuality == 65
SMin == 76800               \* 75 * 1024
MAX_SIZE == 10485760        \* 10 * 1024 * 1024
Timeout == 9000             \* ms
MaxSize == 2000             \* the bound on the larger dimension, in pixels

----------------------------------------------------------------------------
(* Arithmetic *)

\* Math.round(num / den) for den > 0: rounds half up, floor(x + 1/2)
JSRound(num, den) == (2 * num + den) \div (2 * den)

Max(a, b) == IF a >= b THEN a ELSE b

Abs(a) == IF a >= 0 THEN a ELSE -a

\* the decimal expansion of (q + r / den) carried k digits further: long division
RECURSIVE Shift10(_, _, _, _)
Shift10(q, r, den, k) ==
    IF k = 0 THEN [q |-> q, r |-> r]
    ELSE Shift10(10 * q + (10 * r) \div den, (10 * r) % den, den, k - 1)

\* Number.prototype.toFixed: (num / den) * 10^digits rounded to the nearest integer,
\* a half going away from zero; toFixed works on the magnitude and puts the sign back
ToFixed(num, den, digits) ==
    LET s == Shift10(Abs(num) \div den, Abs(num) % den, den, digits)
        n == s.q + (IF 2 * s.r >= den THEN 1 ELSE 0)
    IN  IF num < 0 THEN -n ELSE n

\* reduction = 1 - size1 / original  compared with 0.6:  reduction >= 0.6
ReductionAtLeast60(original, size1) == 5 * (original - size1) >= 3 * original

\* reduction < 0.3
ReductionBelow30(original, size1) == 10 * (original - size1) < 3 * original

\* (mutant) the floor is compared with <=
FirstPassSufficientUpToFloor(original, size1) ==
    ReductionAtLeast60(original, size1) \/ size1 <= SMin

\* main.js:32  reduction >= 0.6 || firstPassBlob.size < 75 * 1024
FirstPassSufficient(original, size1) ==
    ReductionAtLeast60(original, size1) \/ size1 < SMin

\* main.js:38-42  Math.round(min + (max - min) * Math.min(1, reduction / 0.6))
\*   reduction / 0.6 = 5 (original - size1) / (3 original)
AdjustedQuality(original, size1) ==
    IF ReductionAtLeast60(original, size1)
    THEN SecondPassMaxQuality
    ELSE JSRound(SecondPassMinQuality * 3 * original
                   + (SecondPassMaxQuality - SecondPassMinQuality) * 5 * (original - size1),
                 3 * original)

\* (mutant) without the floor of 40
AdjustedQuality2Unfloored(original, size1) == JSRound(Q1 * (original - size1), original)

\* main.js:420  Math.max(40, Math.round(quality * reduction)), quality = 70
AdjustedQuality2(original, size1) ==
    Max(40, JSRound(Q1 * (original - size1), original))

----------------------------------------------------------------------------
(* Queue *)

\* (mutant) the new item is put at the front
Unshift(q, item) == <<item>> \o q

\* main.js:95  fileQueue.push({ file, row })
Push(q, item) == Append(q, item)

\* (mutant) the head is read and left in the queue
Peek(q) == q

\* main.js:123  fileQueue.shift(): the queue it leaves
Shift(q) == Tail(q)

\* (mutant) every handleFiles call starts a drain
StartsDrainAlways == TRUE

\* main.js:97  if (!processing) processNext();
StartsDrain == ~processing

\* (mutant) the flag is left set when the queue runs empty
IdleFlagStuck == TRUE

\* main.js:117  processing = false (the value written when the queue is empty)
IdleFlag == FALSE

\* main.js:146  `x-${file.name.replace(/\.[^/.]+$/, '')}.avif`
\* a name is its extension and the parts of its base, which underscores join
XName(stem) == [base |-> <<"x-">> \o stem, ext |-> "avif"]

\* main.js:386  `${base}_${count}.${ext}`
Suffixed(base, count, ext) == [base |-> Append(base, count), ext |-> ext]

\* main.js:385-388  the while loop of getUniqueName, entered with count
RECURSIVE UniqueFrom(_, _, _, _)
UniqueFrom(base, ext, count, existingNames) ==
    IF Suffixed(base, count, ext) \in existingNames
    THEN UniqueFrom(base, ext, count + 1, existingNames)
    ELSE Suffixed(base, count, ext)

\* main.js:383-392  getUniqueName(baseName, extension, existingNames)
GetUniqueName(base, ext, existingNames) ==
    IF [base |-> base, ext |-> ext] \in existingNames
    THEN UniqueFrom(base, ext, 1, existingNames)
    ELSE [base |-> base, ext |-> ext]

\* main.js:394-395  getUniqueName(`opt_${file.name.replace(/\.\w+$/, '')}`, 'avif',
\*                                new Set(zipFiles.map(f => f.name)))
\* build 1 names its output when the encode is done (main.js:146)
OutputName(stem) ==
    IF variant = 1 THEN [base |-> <<>>, ext |-> ""]
    ELSE GetUniqueName(<<"opt">> \o stem, "avif",
                       {processedFiles[i].name : i \in 1..Len(processedFiles)})

\* the first await of processFile for a file
FirstPc(file) ==
    IF file.type = "image/svg+xml" THEN "text"
    ELSE IF variant = 1 THEN "bitmap" ELSE "imageData"

\* locals of one processNext / processFile invocation; encodes counts the encode
\* calls made for the item (main.js:16, 45 / 412, 421), objectUrl says that
\* svgToPngFile has made an object URL for the item that nothing has revoked, imagePool
\* that optimizeImageClientSide has made an ImagePool on which close() was not called
NewTask(item) ==
    [pc |-> FirstPc(item), size |-> item.size,
     name |-> item.name, outputName |-> OutputName(item.name),
     blob |-> 0, size1 |-> 0, size2 |-> 0, quality |-> 0, chosen |-> 0,
     encodes |-> 0, objectUrl |-> FALSE, imagePool |-> FALSE]

\* main.js:115-125  processNext() up to its first suspension, on queue q
ProcessNext(q) ==
    IF Len(q) = 0
    THEN /\ processing' = IdleFlag
         /\ fileQueue' = q
         /\ UNCHANGED <<task, starts>>
    ELSE LET item == Head(q) IN
         /\ processing' = TRUE
         /\ fileQueue' = Shift(q)
         /\ task' = [r \in DOMAIN task \cup {item.id} |->
                        IF r = item.id THEN NewTask(item) ELSE task[r]]
         /\ starts' = [starts EXCEPT ![item.id] = @ + 1]

\* the phase of the queue: "idle" (no drain running), "busy" (an item is inside
\* processFile), "gap" (an item has finished and the next drain step is still scheduled)
Phase ==
    IF ~processing THEN "idle"
    ELSE IF DOMAIN task # {} THEN "busy" ELSE "gap"

\* the items handleFiles makes of a file list, rows numbered from nextId
Items(fileList) ==
    [i \in 1..Len(fileList) |->
        [id |-> nextId + i - 1, size |-> fileList[i].size, type |-> fileList[i].type,
         name |-> fileList[i].name]]

RECURSIVE PushAll(_, _)
PushAll(q, items) ==
    IF Len(items) = 0 THEN q ELSE PushAll(Push(q, Head(items)), Tail(items))

\* main.js:86-98  handleFiles(fileList), createTableRow included
HandleFiles(fileList) ==
    /\ nextId + Len(fileList) - 1 <= MaxFiles
    /\ UNCHANGED <<serverVars, normVars>>
    /\ IF Len(fileList) = 0
       THEN UNCHANGED clientVars
       ELSE LET items == Items(fileList)
                q == PushAll(fileQueue, items) IN
            /\ row' = [r \in Rows |->
                         IF r >= nextId /\ r < nextId + Len(fileList)
                         THEN "Queued" ELSE row[r]]
            /\ nextId' = nextId + Len(fileList)
            /\ IF StartsDrain
               THEN ProcessNext(q)
               ELSE /\ fileQueue' = q
                    /\ UNCHANGED <<processing, task, starts>>
            /\ phases' = phases \cup {Phase}
            /\ UNCHANGED <<variant, rafPending, processedFiles, shown, downloadDisabled>>

\* main.js:131  the callback given to requestAnimationFrame runs
RafFire ==
    /\ rafPending > 0
    /\ rafPending' = rafPending - 1
    /\ ProcessNext(fileQueue)
    /\ UNCHANGED <<variant, row, processedFiles, nextId, shown, phases, downloadDisabled,
                   serverVars, normVars>>

----------------------------------------------------------------------------
(* One item through processFile *)

Remove(r) == [x \in DOMAIN task \ {r} |-> task[x]]

\* main.js:131  requestAnimationFrame(() => processNext()): the callbacks pending after it
RafScheduled == rafPending + 1

\* (mutant) the error escapes processNext: line 131 is not reached
RafLostOnError == rafPending

\* main.js:126-131 (374-379)  an error thrown inside processFile is caught by
\* processNext, which falls through to line 131: the callbacks pending after that
RafAfterCatch == rafPending + 1

\* main.js:167-171 and 126-129: the item's promise rejected; both catch blocks write
\* the error text, then processNext schedules the next drain step
Fail(r) ==
    /\ row' = [row EXCEPT ![r] = "Error"]
    /\ task' = Remove(r)
    /\ rafPending' = RafAfterCatch
    /\ UNCHANGED <<variant, fileQueue, processing, processedFiles, nextId, shown, starts,
                   phases, downloadDisabled, serverVars, normVars>>

\* main.js:146 / 431  the name of the File made of the encoder's output
FinalName(t) == IF variant = 1 THEN XName(t.name) ELSE t.outputName

\* (mutant) the percentage is taken against the blob handed to the encoder
ReportBaseBlob(t) == IF t.blob > 0 THEN t.blob ELSE t.size

\* main.js:153 / 435  the size the shown percentage is taken against: file.size
ReportBase(t) == t.size

\* main.js:153 / 435  ((1 - (optimizedBlob.size / file.size)) * 100).toFixed(0)
ReducedPercent(size, original) == ToFixed(original - size, original, 2)

\* (mutant) the result is put in front of the ones already kept
UnshiftResult(files, finalFile) == <<finalFile>> \o files

\* main.js:164 / 433  processedFiles.push(finalFile) / zipFiles.push(finalFile)
PushResult(files, finalFile) == Append(files, finalFile)

\* main.js:146-165 (431-444): the result is shown and kept, processFile returns and
\* processNext schedules the next drain step.  pass tells which candidate the bytes are
Succeed(r, size, pass) ==
    /\ row' = [row EXCEPT ![r] = "Done"]
    /\ processedFiles' = PushResult(processedFiles,
                                   [id |-> r, size |-> size, pass |-> pass,
                                    name |-> FinalName(task[r])])
    /\ downloadDisabled' = FALSE
    /\ shown' = [size |-> size, percent |-> ReducedPercent(size, ReportBase(task[r]))]
    /\ task' = Remove(r)
    /\ rafPending' = RafScheduled
    /\ UNCHANGED <<variant, fileQueue, processing, nextId, starts, phases, serverVars,
                   normVars>>

\* only the locals of task r change
Goto(r, t) ==
    /\ task' = [task EXCEPT ![r] = t]
    /\ UNCHANGED <<variant, fileQueue, processing, rafPending, row, processedFiles,
                   nextId, shown, starts, phases, downloadDisabled, serverVars, normVars>>

\* the pc at which a bitmap input enters the build's normalizer
NormalizePc == IF variant = 1 THEN "bitmap" ELSE "imageData"

\* main.js:138 (400)  await file.text() settles; svgToPngFile runs up to img.decode():
\* main.js:228 (449)  URL.createObjectURL(blob)
SvgText(r) ==
    /\ r \in DOMAIN task /\ task[r].pc = "text"
    /\ Goto(r, [task[r] EXCEPT !.pc = "decode", !.objectUrl = TRUE])

\* main.js:231 (452)  await img.decode() settles
SvgDecode(r, ok) ==
    /\ r \in DOMAIN task /\ task[r].pc = "decode"
    /\ IF ok THEN Goto(r, [task[r] EXCEPT !.pc = "toBlob"]) ELSE Fail(r)

\* main.js:240-244 (461-465)  canvas.toBlob calls back with the PNG; the normalizer starts
SvgToBlob(r) ==
    /\ r \in DOMAIN task /\ task[r].pc = "toBlob"
    /\ Goto(r, [task[r] EXCEPT !.pc = NormalizePc])

\* main.js:175-205  build 1: createImageBitmap settles; the canvas is drawn and toBlob asked
Bitmap(r, ok) ==
    /\ variant = 1
    /\ r \in DOMAIN task /\ task[r].pc = "bitmap"
    /\ IF ok THEN Goto(r, [task[r] EXCEPT !.pc = "canvasBlob"]) ELSE Fail(r)

\* main.js:202-207, 145, 12-25  build 1: toBlob calls back with a blob of s bytes;
\* optimizeImageClientSide(processedBlob) makes its ImagePool (line 12) and starts the
\* first encode
CanvasBlob(r, s) ==
    /\ variant = 1
    /\ r \in DOMAIN task /\ task[r].pc = "canvasBlob"
    /\ Goto(r, [task[r] EXCEPT !.pc = "pass1", !.blob = s, !.encodes = 1,
                                 !.imagePool = TRUE])

\* main.js:406-408  hasAlpha ? imageData : await imageToImageData(inputBlob, 2000, true)
\* what processFile awaits next: the second imageToImageData, or the first encode
AfterAlphaPc(hasAlpha) == IF hasAlpha THEN "pass1" ELSE "flatten"

\* main.js:404-413  build 2: imageToImageData settles; imageHasAlpha decides on flattening
ImageData(r, ok, hasAlpha) ==
    /\ variant = 2
    /\ r \in DOMAIN task /\ task[r].pc = "imageData"
    /\ IF ok
       THEN Goto(r, [task[r] EXCEPT !.pc = AfterAlphaPc(hasAlpha),
                                    !.encodes = IF hasAlpha THEN 1 ELSE 0])
       ELSE Fail(r)

\* main.js:408-412  build 2: the flattening imageToImageData settles; the first encode starts
Flatten(r, ok) ==
    /\ variant = 2
    /\ r \in DOMAIN task /\ task[r].pc = "flatten"
    /\ IF ok THEN Goto(r, [task[r] EXCEPT !.pc = "pass1", !.encodes = 1]) ELSE Fail(r)

\* the size the build takes the reduction against: main.js:31 blob.size (the canvas
\* blob handed to optimizeImageClientSide), main.js:415 file.size
ControllerOriginal(t) == IF variant = 1 THEN t.blob ELSE t.size

\* (mutant) the second encode is started whatever the first one gave
AlwaysSecondPass(original, size1) == TRUE

\* main.js:32 / 418  does the controller go on to a second encode
NeedsSecondPass(original, size1) ==
    IF variant = 1
    THEN ~FirstPassSufficient(original, size1)
    ELSE ReductionBelow30(original, size1)

\* main.js:38-42 / 420
SecondPassQuality(original, size1) ==
    IF variant = 1 THEN AdjustedQuality(original, size1)
    ELSE AdjustedQuality2(original, size1)

\* main.js:33 / 59  imagePool.close() has been called: is the pool still open
PoolAfterClose == FALSE

\* main.js:16-35 / 412-418  the first encode settles with s1 bytes, or rejects; a
\* rejection is thrown out of optimizeImageClientSide at the await
Pass1(r, ok, s1) ==
    /\ r \in DOMAIN task /\ task[r].pc = "pass1"
    /\ IF ~ok THEN Fail(r)
       ELSE LET o == ControllerOriginal(task[r]) IN
            IF NeedsSecondPass(o, s1)
            THEN Goto(r, [task[r] EXCEPT !.pc = "pass2", !.size1 = s1,
                                         !.quality = SecondPassQuality(o, s1),
                                         !.encodes = @ + 1])
            ELSE IF variant = 1
                 THEN Goto(r, [task[r] EXCEPT !.pc = "close", !.size1 = s1, !.chosen = 1,
                                              !.imagePool = PoolAfterClose])
                 ELSE Succeed(r, s1, 1)

\* main.js:56-60  build 1: the result of the second encode is what is returned
\* main.js:425-428  build 2: the smaller one is kept
\* the pass (1 or 2) whose candidate is the final one
ChosenPass(size1, size2) ==
    IF variant = 1 THEN 2
    ELSE IF size2 < size1 THEN 2 ELSE 1

\* main.js:45-59 / 421-429  the second encode settles with s2 bytes, or rejects
Pass2(r, ok, s2) ==
    /\ r \in DOMAIN task /\ task[r].pc = "pass2"
    /\ IF ~ok THEN Fail(r)
       ELSE LET c == ChosenPass(task[r].size1, s2) IN
            IF variant = 1
            THEN Goto(r, [task[r] EXCEPT !.pc = "close", !.size2 = s2, !.chosen = c,
                                         !.imagePool = PoolAfterClose])
            ELSE Succeed(r, IF c = 2 THEN s2 ELSE task[r].size1, c)

\* main.js:33-34, 59-60  build 1: await imagePool.close() settles, the chosen blob is
\* returned to processFile
Close(r) ==
    /\ variant = 1
    /\ r \in DOMAIN task /\ task[r].pc = "close"
    /\ Succeed(r, IF task[r].chosen = 1 THEN task[r].size1 ELSE task[r].size2,
               task[r].chosen)

\* main.js:253-295 (502-508)  the click handler of the download button packs what the
\* aggregator holds into an archive and hands it to the browser; a disabled button
\* dispatches no click.  Nothing the page keeps changes
DownloadAll ==
    /\ ~downloadDisabled
    /\ UNCHANGED vars

----------------------------------------------------------------------------
(* The normalizer: one image through processImageThroughCanvas (build 1) or     *)
(* through imageToImageData and imageHasAlpha (build 2).  width and height are  *)
(* the image's dimensions; data is the RGBA bytes of an image of at most        *)
(* MaxPixels pixels, on which the alpha scan and the flattening are modelled:   *)
(* they do not depend on the dimensions.                                        *)

Min(a, b) == IF a <= b THEN a ELSE b

RECURSIVE Pow2(_)
Pow2(n) == IF n = 0 THEN 1 ELSE 2 * Pow2(n - 1)

\* 2^e modulo m, by doubling
RECURSIVE Pow2Mod(_, _)
Pow2Mod(e, m) == IF e = 0 THEN 1 % m ELSE (2 * Pow2Mod(e - 1, m)) % m

\* the least k with a * 2^k >= m
RECURSIVE DoublingsToReach(_, _)
DoublingsToReach(a, m) == IF a >= m THEN 0 ELSE 1 + DoublingsToReach(2 * a, m)

\* the b with 2^b < n <= 2^(b+1), for n >= 2
RECURSIVE BinadeBelow(_)
BinadeBelow(n) == IF n <= 2 THEN 0 ELSE 1 + BinadeBelow((n + 1) \div 2)

\* main.js:470-472  Math.floor(d * Math.min(1, maxSize / m)), m the larger dimension,
\* in IEEE 754 double arithmetic.  For m > maxSize the scale is the double nearest to
\* maxSize / m: scale = M / 2^e with a 53 bit M, e = 52 + k for the least k with
\* maxSize * 2^k >= m, and maxSize / m - scale = rho / (m * 2^e), where rho is the
\* remainder of maxSize * 2^e by m taken to the nearest (no remainder is exactly
\* m / 2 for an m this small).  So d * scale = d * maxSize / m - d * rho / (m * 2^e).
\* When m does not divide d * maxSize the product is further from an integer than
\* any rounding, and the floor is the exact one.  When it does, with quotient K, the
\* product rounds to K unless it is more than half a unit in the last place below
\* it: d * rho / (m * 2^e) > 2^(b - 53), where 2^b < K <= 2^(b+1); then the floor
\* is K - 1.
FloorScaled(d, m, maxSize) ==
    IF m <= maxSize THEN d
    ELSE LET k == DoublingsToReach(maxSize, m)
             r == (maxSize * Pow2Mod(52 + k, m)) % m
             rho == IF 2 * r > m THEN r - m ELSE r
             K == (d * maxSize) \div m
         IN  IF (d * maxSize) % m # 0 \/ rho <= 0 \/ K = 0 THEN K
             ELSE IF K = 1
                  THEN (IF 2 * d * rho <= m * Pow2(k - 1) THEN K ELSE K - 1)
                  ELSE (IF d * rho <= m * Pow2(k - 1 + BinadeBelow(K)) THEN K ELSE K - 1)

\* main.js:469-472  the canvas imageToImageData makes for a bitmap
ScaledSize(b, maxSize) ==
    LET m == Max(b.width, b.height) IN
    [width |-> FloorScaled(b.width, m, maxSize),
     height |-> FloorScaled(b.height, m, maxSize)]

\* main.js:180-190  the canvas processImageThroughCanvas makes for a bitmap
FittedSize(b) ==
    IF b.width > b.height /\ b.width > MaxSize
    THEN [width |-> MaxSize, height |-> JSRound(b.height * MaxSize, b.width)]
    ELSE IF b.height > MaxSize
    THEN [width |-> JSRound(b.width * MaxSize, b.height), height |-> MaxSize]
    ELSE [width |-> b.width, height |-> b.height]

\* (mutant) the scan starts at the first byte and reads the red channel
ImageHasAlphaFromRed(data) ==
    \E i \in 1..Len(data) : i % 4 = 1 /\ data[i] < 255

\* main.js:211-214 (489-492)  the loop of imageHasAlpha from index i on (the array
\* is indexed from 1 here: the loop starts at 4 and steps by 4)
RECURSIVE ScanAlpha(_, _)
ScanAlpha(data, i) ==
    IF i > Len(data) THEN FALSE
    ELSE IF data[i] < 255 THEN TRUE
    ELSE ScanAlpha(data, i + 4)

\* main.js:210-216 (488-494)  imageHasAlpha(imageData)
ImageHasAlpha(data) == ScanAlpha(data, 4)

\* main.js:479-485  a pixel drawn over the white fill: source-over compositing
OverWhite(data) ==
    [i \in 1..Len(data) |->
        IF i % 4 = 0 THEN 255
        ELSE LET a == data[4 * ((i + 3) \div 4)] IN
             (data[i] * a + 255 * (255 - a)) \div 255]

\* main.js:203-204  hasAlpha ? 'image/png' : 'image/jpeg'
BlobType(hasAlpha) == IF hasAlpha THEN "image/png" ELSE "image/jpeg"

NoBitmap == [width |-> 0, height |-> 0, data |-> <<>>]

\* no run of the normalizer has started
NoNorm == [pc |-> "start", width |-> 0, height |-> 0, hasAlpha |-> FALSE,
           flattened |-> FALSE, data |-> <<>>, type |-> ""]

\* ctx.getImageData throws for a canvas without pixels
Drawable(size) == size.width > 0 /\ size.height > 0

\* main.js:174-207  build 1: the bitmap is there; the canvas is sized and drawn, the
\* alpha channel scanned and toBlob asked for a PNG or a JPEG
CanvasDrawn ==
    /\ variant = 1
    /\ norm.pc = "start"
    /\ LET size == FittedSize(bitmap) IN
       IF Drawable(size)
       THEN norm' = [norm EXCEPT !.pc = "canvasBlob",
                                 !.width = size.width, !.height = size.height,
                                 !.data = bitmap.data,
                                 !.hasAlpha = ImageHasAlpha(bitmap.data),
                                 !.type = BlobType(ImageHasAlpha(bitmap.data))]
       ELSE norm' = [norm EXCEPT !.pc = "failed",
                                 !.width = size.width, !.height = size.height]
    /\ UNCHANGED <<bitmap, clientVars, serverVars>>

\* main.js:404-408, 468-486  build 2: imageToImageData(inputBlob, 2000) settles and
\* imageHasAlpha decides what is awaited next
ImageDataMade ==
    /\ variant = 2
    /\ norm.pc = "start"
    /\ LET size == ScaledSize(bitmap, MaxSize) IN
       IF Drawable(size)
       THEN norm' = [norm EXCEPT !.pc = AfterAlphaPc(ImageHasAlpha(bitmap.data)),
                                 !.width = size.width, !.height = size.height,
                                 !.data = bitmap.data,
                                 !.hasAlpha = ImageHasAlpha(bitmap.data)]
       ELSE norm' = [norm EXCEPT !.pc = "failed",
                                 !.width = size.width, !.height = size.height]
    /\ UNCHANGED <<bitmap, clientVars, serverVars>>

\* main.js:408, 468-486  build 2: imageToImageData(inputBlob, 2000, true) settles
FlattenedMade ==
    /\ variant = 2
    /\ norm.pc = "flatten"
    /\ LET size == ScaledSize(bitmap, MaxSize) IN
       norm' = [norm EXCEPT !.pc = "pass1",
                            !.width = size.width, !.height = size.height,
                            !.data = OverWhite(bitmap.data),
                            !.flattened = TRUE]
    /\ UNCHANGED <<bitmap, clientVars, serverVars>>

----------------------------------------------------------------------------
(* Request mode: exports.handler *)

\* statusCode; error, details: the JSON body of a failure; caught: the message of
\* the error the response was made from ("" when none was caught); processed,
\* originalSize, optimizedSize, reduction: the X- headers of a result (reduction in
\* tenths of a percent); at: the clock when the handler returned
NoResponse == [statusCode |-> 0, error |-> "", details |-> "", caught |-> "",
               processed |-> "", originalSize |-> 0, optimizedSize |-> 0,
               reduction |-> 0, at |-> 0]

\* no request has arrived
ServerIdle ==
    /\ hpc = "idle"
    /\ event = [httpMethod |-> "", contentLength |-> -1, body |-> FALSE, length |-> 0,
                decodable |-> FALSE]
    /\ clock = 0
    /\ timerArmed = FALSE
    /\ avifBuffer1 = 0
    /\ adjustedQuality = 0
    /\ codecCalls = 0
    /\ response = NoResponse

\* httpMethod; contentLength: the content-length header (-1: absent); body: whether
\* event.body is a non-empty string; length: bytes of the buffer decoded from it;
\* decodable: whether those bytes are an image sharp can read
Events ==
    [httpMethod : {"POST", "GET"},
     contentLength : {-1} \cup BodySizes,
     body : {TRUE},
     length : BodySizes,
     decodable : BOOLEAN]
    \cup
    [httpMethod : {"POST", "GET"},
     contentLength : {-1} \cup BodySizes,
     body : BOOLEAN,
     length : {0},
     decodable : {FALSE}]

\* optimise.cjs:33  parseInt(event.headers['content-length'] || '0')
ContentLength(e) == IF e.contentLength = -1 THEN 0 ELSE e.contentLength

\* optimise.cjs:31-40  is the request refused as too large; part_000 has no such check
TooLarge(e) == server = "optimise" /\ ContentLength(e) > MAX_SIZE

\* an error response: { statusCode, body: JSON.stringify({ error, details }) }
ErrorResponse(status, error, details) ==
    [NoResponse EXCEPT !.statusCode = status, !.error = error, !.details = details,
                       !.at = clock]

\* optimise.cjs:64-73 (part_000:39-48)  the catch around the making of the buffer
BufferError(message) ==
    [ErrorResponse(400, "Invalid image data", message) EXCEPT !.caught = message]

\* optimise.cjs:147, 186  `${((1 - (size / inputBuffer.length)) * 100).toFixed(1)}%`
XReduction(size) == ToFixed(event.length - size, event.length, 3)

\* optimise.cjs:140-151, 179-190  the 200 response with its X- headers
\* part_000:69-74, 86-91          the 200 response, which has none
OkResponse(processed, size) ==
    IF server = "optimise"
    THEN [NoResponse EXCEPT !.statusCode = 200, !.processed = processed,
                            !.originalSize = event.length, !.optimizedSize = size,
                            !.reduction = XReduction(size), !.at = clock]
    ELSE [NoResponse EXCEPT !.statusCode = 200, !.optimizedSize = size, !.at = clock]

\* optimise.cjs:200-216  the outer catch: error.statusCode || 500, details by NODE_ENV
\* part_000:93-101       the processing catch: 400 with the message
ProcessingError(message) ==
    [(IF server = "optimise"
      THEN ErrorResponse(500, "Failed to process image",
                         IF nodeEnv = "development" THEN message
                         ELSE "Internal server error")
      ELSE ErrorResponse(400, "Failed to process image", message))
     EXCEPT !.caught = message]

\* the handler returns
Return(resp) ==
    /\ hpc' = "done"
    /\ response' = resp

\* (mutant) no catch around the processing: the handler's promise rejects
Uncaught(message) ==
    /\ hpc' = "threw"
    /\ UNCHANGED response

\* optimise.cjs:192-216 (part_000:93-101)  an error thrown or a rejection awaited
\* inside the processing is caught and answered
Catch(message) == Return(ProcessingError(message))

\* optimise.cjs:15-90 (part_000:4-52)  the handler is invoked and runs up to its
\* first await: sharp(inputBuffer).metadata(), raced with the timeout in optimise.cjs
Handler(e) ==
    /\ hpc = "idle"
    /\ event' = e
    /\ clock' = 0
    /\ IF e.httpMethod # "POST"
       THEN /\ Return(ErrorResponse(405, "Method Not Allowed", ""))
            /\ UNCHANGED <<timerArmed, codecCalls>>
       ELSE IF TooLarge(e)
       THEN /\ Return(ErrorResponse(413, "File too large. Maximum size is 10MB", ""))
            /\ UNCHANGED <<timerArmed, codecCalls>>
       ELSE IF ~e.body
       THEN /\ Return(ErrorResponse(400, "No image data provided", ""))
            /\ UNCHANGED <<timerArmed, codecCalls>>
       ELSE IF e.length = 0
       THEN /\ Return(BufferError(IF server = "optimise" THEN "Empty buffer received"
                                   ELSE "Empty buffer"))
            /\ UNCHANGED <<timerArmed, codecCalls>>
       ELSE /\ hpc' = "metadata"
            /\ timerArmed' = (server = "optimise")
            /\ codecCalls' = codecCalls + 1
            /\ UNCHANGED response
    /\ UNCHANGED <<server, nodeEnv, avifBuffer1, adjustedQuality, clientVars, normVars>>

\* the handler is awaiting sharp
Awaiting == hpc \in {"metadata", "pass1", "pass2"}

\* time passes while the handler awaits; a due timer fires before time goes on
Tick ==
    /\ Awaiting
    /\ clock + TickMs <= MaxTicks * TickMs
    /\ ~(timerArmed /\ clock >= Timeout)
    /\ clock' = clock + TickMs
    /\ UNCHANGED <<server, nodeEnv, hpc, event, timerArmed, avifBuffer1,
                   adjustedQuality, codecCalls, response, clientVars, normVars>>

\* optimise.cjs:81-83, 192-195, 200-216  the timer fires: timeoutPromise rejects, the
\* race being awaited rejects, the catch clears the timer and rethrows
TimerFires ==
    /\ timerArmed
    /\ clock >= Timeout
    /\ Awaiting
    /\ timerArmed' = FALSE
    /\ Catch("Processing timed out after 9000ms")
    /\ UNCHANGED <<server, nodeEnv, event, clock, avifBuffer1, adjustedQuality,
                   codecCalls, clientVars, normVars>>

\* (mutant) without line 92: the timer stays pending
ArmedAfterMetadataKept == TRUE

\* optimise.cjs:92  clearTimeout(timeoutId) once the metadata is there: is the timer
\* still pending afterwards
ArmedAfterMetadata == FALSE

\* optimise.cjs:87-133 (part_000:52-63)  metadata() settles: "ok", "noformat" (no
\* format in the metadata) or "reject"; on "ok" the first encode is started.
\* sharp reads the metadata of the bytes that are an image, and of no others
Metadata(outcome) ==
    /\ hpc = "metadata"
    /\ (outcome = "ok") <=> event.decodable
    /\ IF outcome = "ok"
       THEN /\ hpc' = "pass1"
            /\ timerArmed' = (timerArmed /\ ArmedAfterMetadata)
            /\ codecCalls' = codecCalls + 1
            /\ UNCHANGED response
       ELSE /\ timerArmed' = FALSE
            /\ Catch(IF outcome = "noformat"
                     THEN "Could not determine image format"
                     ELSE "Input buffer contains unsupported image format")
            /\ UNCHANGED codecCalls
    /\ UNCHANGED <<server, nodeEnv, event, clock, avifBuffer1, adjustedQuality,
                   clientVars, normVars>>

\* reduction >= 0.5
ReductionAtLeast50(original, size1) == 2 * (original - size1) >= original

\* optimise.cjs:139  /  part_000:68
ServerFirstPassSufficient(original, size1) ==
    IF server = "optimise" THEN FirstPassSufficient(original, size1)
    ELSE ReductionAtLeast50(original, size1)

\* optimise.cjs:155-159  /  part_000:78  Math.max(40, Math.round(40 + 40 * reduction))
ServerAdjustedQuality(original, size1) ==
    IF server = "optimise" THEN AdjustedQuality(original, size1)
    ELSE Max(40, JSRound(40 * original + 40 * (original - size1), original))

\* optimise.cjs:107-175 (part_000:60-84)  the first encode settles with s1 bytes, or
\* rejects
ServerPass1(ok, s1) ==
    /\ hpc = "pass1"
    /\ IF ~ok
       THEN /\ timerArmed' = FALSE
            /\ Catch("encode failed")
            /\ UNCHANGED <<avifBuffer1, adjustedQuality, codecCalls>>
       ELSE /\ avifBuffer1' = s1
            /\ IF ServerFirstPassSufficient(event.length, s1)
               THEN /\ Return(OkResponse("single-pass", s1))
                    /\ UNCHANGED <<timerArmed, adjustedQuality, codecCalls>>
               ELSE /\ hpc' = "pass2"
                    /\ adjustedQuality' = ServerAdjustedQuality(event.length, s1)
                    /\ codecCalls' = codecCalls + 1
                    /\ UNCHANGED <<timerArmed, response>>
    /\ UNCHANGED <<server, nodeEnv, event, clock, clientVars, normVars>>

\* optimise.cjs:163-195 (part_000:81-91)  the second encode settles with s2 bytes, or
\* rejects; its output is the body of the response
ServerPass2(ok, s2) ==
    /\ hpc = "pass2"
    /\ IF ~ok
       THEN /\ timerArmed' = FALSE
            /\ Catch("encode failed")
       ELSE /\ Return(OkResponse("two-pass", s2))
            /\ UNCHANGED timerArmed
    /\ UNCHANGED <<server, nodeEnv, event, clock, avifBuffer1, adjustedQuality,
                   codecCalls, clientVars, normVars>>

\* the download button as the page's markup gives it to the script: the markup is not
\* among the sources; the bundling action is gated on the aggregator holding something,
\* and at load it holds nothing
DisabledAtLoad == TRUE

\* a deployed handler before its first request; the page is not part of it
ServerInit ==
    /\ server \in {"optimise", "earlier"}
    /\ nodeEnv \in {"production", "development"}
    /\ ServerIdle
    /\ variant = 1
    /\ fileQueue = <<>>
    /\ processing = FALSE
    /\ rafPending = 0
    /\ task = <<>>
    /\ row = [r \in Rows |-> "none"]
    /\ processedFiles = <<>>
    /\ nextId = 1
    /\ shown = [size |-> 0, percent |-> 0]
    /\ starts = [r \in Rows |-> 0]
    /\ phases = {}
    /\ downloadDisabled = DisabledAtLoad
    /\ bitmap = NoBitmap
    /\ norm = NoNorm

ServerNext ==
    \/ \E e \in Events : Handler(e)
    \/ Tick
    \/ TimerFires
    \/ \E outcome \in {"ok", "noformat", "reject"} : Metadata(outcome)
    \/ \E ok \in BOOLEAN, s \in Sizes : ServerPass1(ok, s)
    \/ \E ok \in BOOLEAN, s \in Sizes : ServerPass2(ok, s)

ServerSpec == ServerInit /\ [][ServerNext]_vars

\* the call the handler is awaiting settles, or the timer that is due fires
ServerSettle ==
    \/ TimerFires
    \/ \E outcome \in {"ok", "noformat", "reject"} : Metadata(outcome)
    \/ \E ok \in BOOLEAN, s \in Sizes : ServerPass1(ok, s)
    \/ \E ok \in BOOLEAN, s \in Sizes : ServerPass2(ok, s)

\* every call made to sharp settles
ServerFairSpec == ServerSpec /\ WF_vars(ServerSettle)

----------------------------------------------------------------------------
(* The page *)

Files == [size : FileSizes, type : FileTypes, name : FileStems]

FileLists == UNION {[1..n -> Files] : n \in 0..MaxBatch}

\* the page after its script has run: main.js:9, 83-84 (309, 331-332)
Init ==
    /\ variant \in {1, 2}
    /\ fileQueue = <<>>
    /\ processing = FALSE
    /\ rafPending = 0
    /\ task = <<>>
    /\ row = [r \in Rows |-> "none"]
    /\ processedFiles = <<>>
    /\ nextId = 1
    /\ shown = [size |-> 0, percent |-> 0]
    /\ starts = [r \in Rows |-> 0]
    /\ phases = {}
    /\ downloadDisabled = DisabledAtLoad
    /\ bitmap = NoBitmap
    /\ norm = NoNorm
    /\ server = "optimise"
    /\ nodeEnv = "production"
    /\ ServerIdle

Next ==
    \/ \E fileList \in FileLists : HandleFiles(fileList)
    \/ RafFire
    \/ \E r \in Rows : SvgText(r)
    \/ \E r \in Rows, ok \in BOOLEAN : SvgDecode(r, ok)
    \/ \E r \in Rows : SvgToBlob(r)
    \/ \E r \in Rows, ok \in BOOLEAN : Bitmap(r, ok)
    \/ \E r \in Rows, s \in Sizes : CanvasBlob(r, s)
    \/ \E r \in Rows, ok \in BOOLEAN, hasAlpha \in BOOLEAN : ImageData(r, ok, hasAlpha)
    \/ \E r \in Rows, ok \in BOOLEAN : Flatten(r, ok)
    \/ \E r \in Rows, ok \in BOOLEAN, s \in Sizes : Pass1(r, ok, s)
    \/ \E r \in Rows, ok \in BOOLEAN, s \in Sizes : Pass2(r, ok, s)
    \/ \E r \in Rows : Close(r)
    \/ DownloadAll

Spec == Init /\ [][Next]_vars

\* the operation row r's processFile is awaiting settles
Settle(r) ==
    \/ SvgText(r)
    \/ \E ok \in BOOLEAN : SvgDecode(r, ok)
    \/ SvgToBlob(r)
    \/ \E ok \in BOOLEAN : Bitmap(r, ok)
    \/ \E s \in Sizes : CanvasBlob(r, s)
    \/ \E ok \in BOOLEAN, hasAlpha \in BOOLEAN : ImageData(r, ok, hasAlpha)
    \/ \E ok \in BOOLEAN : Flatten(r, ok)
    \/ \E ok \in BOOLEAN, s \in Sizes : Pass1(r, ok, s)
    \/ \E ok \in BOOLEAN, s \in Sizes : Pass2(r, ok, s)
    \/ Close(r)

\* The event loop runs every scheduled animation frame callback, and every decode,
\* rasterize and encode call settles.  Nothing obliges the user to submit files.
Fairness ==
    /\ WF_vars(RafFire)
    /\ \A r \in Rows : WF_vars(Settle(r))

FairSpec == Spec /\ Fairness

\* the RGBA bytes of a pixel, and of the images of 1..MaxPixels pixels
Pixels == {<<c, c, c, a>> : c \in ColourValues, a \in AlphaValues}

RECURSIVE Flat(_)
Flat(pixelSeq) == IF Len(pixelSeq) = 0 THEN <<>> ELSE Head(pixelSeq) \o Flat(Tail(pixelSeq))

PixelData == {Flat(ps) : ps \in UNION {[1..n -> Pixels] : n \in 1..MaxPixels}}

Bitmaps == [width : DimValues, height : DimValues, data : PixelData]

\* a page that has decoded one image and hands it to its normalizer
NormInit ==
    /\ variant \in {1, 2}
    /\ fileQueue = <<>>
    /\ processing = FALSE
    /\ rafPending = 0
    /\ task = <<>>
    /\ row = [r \in Rows |-> "none"]
    /\ processedFiles = <<>>
    /\ nextId = 1
    /\ shown = [size |-> 0, percent |-> 0]
    /\ starts = [r \in Rows |-> 0]
    /\ phases = {}
    /\ downloadDisabled = DisabledAtLoad
    /\ server = "optimise"
    /\ nodeEnv = "production"
    /\ ServerIdle
    /\ bitmap \in Bitmaps
    /\ norm = NoNorm

NormNext ==
    \/ CanvasDrawn
    \/ ImageDataMade
    \/ FlattenedMade

NormalizerSpec == NormInit /\ [][NormNext]_vars

\* Either deployment: the page on its own, or a handler serving one request
AnyInit == Init \/ ServerInit

\* no request has reached a handler
PageOnly == hpc = "idle"

\* no file has been given to a page
HandlerOnly == nextId = 1

AnyNext ==
    \/ \E fileList \in FileLists : PageOnly /\ HandleFiles(fileList)
    \/ PageOnly /\ RafFire
    \/ \E r \in Rows : PageOnly /\ SvgText(r)
    \/ \E r \in Rows, ok \in BOOLEAN : PageOnly /\ SvgDecode(r, ok)
    \/ \E r \in Rows : PageOnly /\ SvgToBlob(r)
    \/ \E r \in Rows, ok \in BOOLEAN : PageOnly /\ Bitmap(r, ok)
    \/ \E r \in Rows, s \in Sizes : PageOnly /\ CanvasBlob(r, s)
    \/ \E r \in Rows, ok \in BOOLEAN, hasAlpha \in BOOLEAN :
          PageOnly /\ ImageData(r, ok, hasAlpha)
    \/ \E r \in Rows, ok \in BOOLEAN : PageOnly /\ Flatten(r, ok)
    \/ \E r \in Rows, ok \in BOOLEAN, s \in Sizes : PageOnly /\ Pass1(r, ok, s)
    \/ \E r \in Rows, ok \in BOOLEAN, s \in Sizes : PageOnly /\ Pass2(r, ok, s)
    \/ \E r \in Rows : PageOnly /\ Close(r)
    \/ PageOnly /\ DownloadAll
    \/ \E e \in Events : HandlerOnly /\ Handler(e)
    \/ HandlerOnly /\ Tick
    \/ HandlerOnly /\ TimerFires
    \/ \E outcome \in {"ok", "noformat", "reject"} : HandlerOnly /\ Metadata(outcome)
    \/ \E ok \in BOOLEAN, s \in Sizes : HandlerOnly /\ ServerPass1(ok, s)
    \/ \E ok \in BOOLEAN, s \in Sizes : HandlerOnly /\ ServerPass2(ok, s)

AnySpec == AnyInit /\ [][AnyNext]_vars

\* byte counts for the controller on its own: against 192000 they give the reductions
\* 0.8, 0.6, 0.4, 0.31, 0.3, 0.29, 0.25, 0 and -0.3
ControllerSizes == {38400, 76800, 115200, 132480, 134400, 136320, 144000, 192000, 249600}

\* a page whose first file has been normalised and is in its first encode: processFile
\* of row 1 awaits main.js:16 (build 1, on a canvas blob) or main.js:412 (build 2)
ControllerInit ==
    /\ variant \in {1, 2}
    /\ fileQueue = <<>>
    /\ processing = TRUE
    /\ rafPending = 0
    /\ processedFiles = <<>>
    /\ \E original \in ControllerSizes, canvas \in ControllerSizes :
          task = [r \in {1} |->
                    [NewTask([id |-> 1, size |-> original, type |-> "image/png",
                              name |-> <<"photo">>])
                       EXCEPT !.pc = "pass1", !.encodes = 1,
                              !.blob = IF variant = 1 THEN canvas ELSE 0,
                              !.imagePool = (variant = 1)]]
    /\ row = [r \in Rows |-> IF r = 1 THEN "Queued" ELSE "none"]
    /\ nextId = 2
    /\ shown = [size |-> 0, percent |-> 0]
    /\ starts = [r \in Rows |-> IF r = 1 THEN 1 ELSE 0]
    /\ phases = {"idle"}
    /\ downloadDisabled = DisabledAtLoad
    /\ bitmap = NoBitmap
    /\ norm = NoNorm
    /\ server = "optimise"
    /\ nodeEnv = "production"
    /\ ServerIdle

ControllerNext ==
    \/ \E ok \in BOOLEAN, s \in ControllerSizes : Pass1(1, ok, s)
    \/ \E ok \in BOOLEAN, s \in ControllerSizes : Pass2(1, ok, s)
    \/ Close(1)
    \/ RafFire

ControllerSpec == ControllerInit /\ [][ControllerNext]_vars

----------------------------------------------------------------------------
(* Properties of the processing queue *)

Terminal == {"Done", "Error"}

Last(q) == q[Len(q)]

\* C1: at most one item is inside processFile at any time, whatever the interleaving
\* of handleFiles calls with the steps of the active item and with the scheduled
\* drain step.
AtMostOneActive == Cardinality(DOMAIN task) <= 1

\* a handleFiles call arrived between the end of an item and the scheduled drain
\* step, and the item it queued is now the one being processed
EnqueuedInGapNowActive ==
    /\ "gap" \in phases
    /\ Cardinality(DOMAIN task) = 1
    /\ \E r \in Rows : row[r] \in Terminal

\* C5: every row is handed to processFile at most once; a row that shows a result
\* or the error text keeps it for good, is not in the queue and is not being
\* processed; no row shows a result and is also being processed.
ProcessedOnceOneTerminalState ==
    [][\A r \in Rows :
          /\ starts'[r] <= 1
          /\ row[r] \in Terminal =>
                /\ row'[r] = row[r]
                /\ r \notin {fileQueue'[i].id : i \in 1..Len(fileQueue')}
                /\ r \notin DOMAIN task'
                /\ starts'[r] = starts[r]]_vars

\* one item ended Done and another ended Failed, each processed once
OneDoneOneFailed ==
    \E r1, r2 \in Rows :
        /\ row[r1] = "Done" /\ row[r2] = "Error"
        /\ starts[r1] = 1 /\ starts[r2] = 1

\* C6: when a step of an item fails, only that row gets the error text, the item
\* leaves processFile and is not put back, the queue behind it is untouched, no
\* result is recorded, and the next drain step is scheduled; while items wait in the
\* queue an item is being processed or a drain step is scheduled.
FailureIsolated ==
    [][/\ \A r \in Rows :
            (row[r] = "Queued" /\ row'[r] = "Error") =>
               /\ \A x \in Rows \ {r} : row'[x] = row[x]
               /\ r \notin DOMAIN task'
               /\ fileQueue' = fileQueue
               /\ starts' = starts
               /\ processedFiles' = processedFiles
               /\ rafPending' = rafPending + 1
       /\ Len(fileQueue') > 0 => (DOMAIN task' # {} \/ rafPending' > 0)]_vars

\* the second item was queued while the first was being processed, the first failed
\* and the second was processed to a result
FailedThenNextDone ==
    /\ "busy" \in phases /\ "gap" \notin phases
    /\ row[1] = "Error" /\ row[2] = "Done"

\* C7: with every awaited operation settling and every scheduled callback running,
\* every row that is queued eventually shows a result or the error text.
EventuallyTerminal == \A r \in Rows : (row[r] = "Queued") ~> (row[r] \in Terminal)

\* files arrived both while the queue was idle and between two items, and every row
\* made has reached its terminal state
AllTerminalAfterGapEnqueue ==
    /\ {"idle", "gap"} \subseteq phases
    /\ nextId > MaxFiles
    /\ \A r \in Rows : row[r] \in Terminal

\* C8: rows are numbered in the order they are queued; a row that has been handed to
\* processFile finds every earlier row already terminal, and the queue holds the
\* waiting rows in increasing order, all later than any row started.
FifoOrder ==
    /\ \A r \in Rows : starts[r] > 0 => \A e \in 1..(r - 1) : row[e] \in Terminal
    /\ \A i \in 1..Len(fileQueue) :
          /\ starts[fileQueue[i].id] = 0
          /\ \A j \in 1..(i - 1) : fileQueue[j].id < fileQueue[i].id
          /\ \A r \in Rows : starts[r] > 0 => r < fileQueue[i].id

\* two handleFiles calls, the second while the first item was being processed, and
\* both items have reached their terminal state
TwoCallsBothTerminal ==
    /\ {"idle", "busy"} \subseteq phases
    /\ row[1] \in Terminal /\ row[2] \in Terminal

----------------------------------------------------------------------------
(* Properties of the quality controller (client builds) *)

\* C2: the final output of an item is never larger than its pass-1 candidate: when an
\* item for which a second encode ran gets its result, the size of the result is at
\* most the size of the first encode.
NeverRegress ==
    [][\A r \in DOMAIN task :
          (row[r] = "Queued" /\ row'[r] = "Done" /\ task[r].size1 > 0) =>
             Last(processedFiles').size <= task[r].size1]_vars

\* C3: when the pass-1 reduction is >= 0.6 or the pass-1 size is below 75 KiB no
\* second encode runs, and an item that had no second encode gets the pass-1
\* candidate as its result.
SufficientFirstPassIsFinal ==
    [][/\ \A r \in DOMAIN task' :
            task'[r].pc = "pass2" =>
               ~FirstPassSufficient(ControllerOriginal(task'[r]), task'[r].size1)
       /\ \A r \in DOMAIN task :
            (row[r] = "Queued" /\ row'[r] = "Done" /\ task[r].pc = "pass1") =>
               Last(processedFiles').pass = 1]_vars

\* C4: while a second encode runs, its quality is within [40, 65].
SecondPassQualityInRange ==
    \A r \in DOMAIN task :
        task[r].pc = "pass2" =>
            /\ task[r].quality >= SecondPassMinQuality
            /\ task[r].quality <= SecondPassMaxQuality

----------------------------------------------------------------------------
(* Properties of request mode *)

\* C9: one 9 second budget covers the first and the second encode of a request: a
\* request whose encode was still running when the budget ran out (its response
\* comes after the budget) ends with a failure and carries no compressed result.
BudgetCoversEncodes ==
    (server = "optimise" /\ hpc = "done" /\ response.at > Timeout) =>
        /\ response.statusCode # 200
        /\ response.optimizedSize = 0

\* C10: a POST whose received body is larger than 10 MiB is answered 413 and sharp is
\* not called for it.
OversizeBodyRefused ==
    (server = "optimise" /\ hpc # "idle" /\ event.httpMethod = "POST"
       /\ event.length > MAX_SIZE) =>
        /\ hpc = "done"
        /\ response.statusCode = 413
        /\ codecCalls = 0

----------------------------------------------------------------------------
(* Properties of the results *)

\* C11: the output names of the results of a batch are pairwise distinct.
OutputNamesDistinct ==
    \A i, j \in 1..Len(processedFiles) :
        i # j => processedFiles[i].name # processedFiles[j].name

\* C12: the reduction that is reported is 1 - final size / original size, of the
\* candidate that was finally chosen and of the source as it was submitted: the
\* percentage written to the row of an item that gets its result is the one of the
\* result's size against file.size, and the X-Reduction and X-Original-Size headers
\* of a 200 response are the ones of the body sent against the decoded request body.
ReportedReductionIsOfFinalAndSource ==
    [][/\ \A r \in DOMAIN task :
            (row[r] = "Queued" /\ row'[r] = "Done") =>
               /\ shown'.size = Last(processedFiles').size
               /\ shown'.percent =
                     ToFixed(task[r].size - Last(processedFiles').size, task[r].size, 2)
       /\ (server' = "optimise" /\ hpc' = "done" /\ response'.statusCode = 200) =>
               /\ response'.originalSize = event'.length
               /\ response'.reduction =
                     ToFixed(event'.length - response'.optimizedSize, event'.length, 3)]_vars

\* build 1 encoded a 192000 byte file twice and kept the second candidate, of 76800
\* bytes: the row shows 60%
SecondCandidateReported60 ==
    /\ variant = 1
    /\ Len(processedFiles) > 0
    /\ Last(processedFiles).pass = 2
    /\ Last(processedFiles).size = 76800
    /\ shown = [size |-> 76800, percent |-> 60]

\* Math.round as the specification reads it: a half goes away from zero
RoundHalfAway(num, den) ==
    IF num >= 0 THEN (2 * num + den) \div (2 * den)
    ELSE -((2 * (-num) + den) \div (2 * den))

\* round(Qmin + (Qmax - Qmin) * min(1, reduction / 0.6)), Qmin = 40, Qmax = 65
ScaledQuality(original, size1) ==
    IF 5 * (original - size1) >= 3 * original THEN 65
    ELSE RoundHalfAway(40 * 3 * original + 25 * 5 * (original - size1), 3 * original)

\* C13: whenever a second encode runs, its quality is
\* round(40 + 25 * min(1, reduction / 0.6)) of the pass-1 reduction.
SecondPassQualityIsScaled ==
    /\ hpc = "pass2" => adjustedQuality = ScaledQuality(event.length, avifBuffer1)
    /\ \A r \in DOMAIN task :
          task[r].pc = "pass2" =>
             task[r].quality = ScaledQuality(ControllerOriginal(task[r]), task[r].size1)

----------------------------------------------------------------------------
(* Properties of the drain *)

\* C16: when the drain step finds the queue empty the drain stops: processing is
\* false and no drain step is scheduled, and whenever processing is false nothing is
\* queued, processed or scheduled; a handleFiles call that adds rows while no drain
\* runs starts one on its first row; one that adds rows while a drain runs starts
\* nothing.
DrainStopsAndRestarts ==
    [][/\ (rafPending' < rafPending /\ Len(fileQueue) = 0) =>
               (~processing' /\ rafPending' = 0 /\ DOMAIN task' = {})
       /\ ~processing' =>
               (rafPending' = 0 /\ DOMAIN task' = {} /\ Len(fileQueue') = 0)
       /\ (nextId' > nextId /\ ~processing) =>
               /\ processing'
               /\ DOMAIN task' = {nextId}
               /\ starts' = [starts EXCEPT ![nextId] = 1]
               /\ rafPending' = rafPending
       /\ (nextId' > nextId /\ processing) =>
               /\ processing'
               /\ task' = task
               /\ starts' = starts
               /\ rafPending' = rafPending]_vars

\* files were added while no drain ran and while one ran, every row was processed,
\* and the drain has stopped
DrainStoppedAfterBusyEnqueue ==
    /\ {"idle", "busy"} \subseteq phases
    /\ ~processing /\ rafPending = 0 /\ Len(fileQueue) = 0
    /\ nextId > MaxFiles
    /\ \A r \in Rows : starts[r] = 1

----------------------------------------------------------------------------
(* Properties of the failure responses *)

\* C14: a POST whose body is missing, empty or not a decodable image is answered 400
\* (a request refused for its declared length, or cut off by the timer, aside).
UndecodableBodyAnswered400 ==
    (/\ hpc = "done"
     /\ event.httpMethod = "POST"
     /\ ContentLength(event) <= MAX_SIZE
     /\ ~event.decodable
     /\ response.at < Timeout) =>
        response.statusCode = 400

\* C15: the handler answers every request, once, and never rejects: the response is
\* written once, when the handler returns; a failure has a non-2xx status and no
\* result; a 200 carries the output of an encode that completed; and every request
\* that has arrived gets its response.
OneResponsePerRequest ==
    /\ [][/\ hpc' # "threw"
          /\ response' # response =>
                (hpc # "done" /\ hpc' = "done" /\ response = NoResponse)
          /\ hpc' = "done" =>
                /\ response'.statusCode \in {200, 400, 405, 413, 500}
                /\ response'.statusCode # 200 =>
                      (response'.optimizedSize = 0 /\ response'.error # "")
                /\ response'.statusCode = 200 =>
                      /\ response'.optimizedSize \in Sizes
                      /\ avifBuffer1' \in Sizes
                      /\ codecCalls' >= 2
                      /\ \/ response'.optimizedSize = avifBuffer1'
                         \/ (hpc = "pass2" /\ codecCalls' = 3)]_vars
    /\ (hpc # "idle") ~> (hpc = "done")

\* the second encode of a request rejected: the one response is a failure
SecondEncodeRejectedAnswered ==
    /\ hpc = "done"
    /\ codecCalls = 3
    /\ response.caught = "encode failed"
    /\ response.statusCode \in {400, 500}
    /\ response.optimizedSize = 0

\* C18: in production a failure response does not carry the message of the error it
\* was made from.
NoCaughtMessageInProduction ==
    (nodeEnv = "production" /\ hpc = "done" /\ response.caught # "") =>
        response.details # response.caught

----------------------------------------------------------------------------
(* Properties of the normalizer *)

\* C19: the normalizer never upscales and keeps the bound: the output is no wider
\* and no higher than the input, its larger dimension is the smaller of 2000 and
\* the input's larger dimension, and each dimension is the input's scaled by
\* min(1, 2000 / larger input dimension) and rounded down.
NeverUpscalesKeepsBound ==
    norm.pc # "start" =>
        LET m == Max(bitmap.width, bitmap.height) IN
        /\ norm.width <= bitmap.width
        /\ norm.height <= bitmap.height
        /\ Max(norm.width, norm.height) = Min(2000, m)
        /\ norm.width = (bitmap.width * Min(2000, m)) \div m
        /\ norm.height = (bitmap.height * Min(2000, m)) \div m

\* C20: hasAlpha is true exactly when some pixel of the normalized buffer has an
\* alpha below 255, and only an image whose hasAlpha is false is drawn over the
\* white fill; what is handed on then has no alpha below 255.
HasAlphaIffSomePixelTransparent ==
    norm.pc \notin {"start", "failed"} =>
        /\ norm.hasAlpha <=>
              \E k \in 1..(Len(bitmap.data) \div 4) : bitmap.data[4 * k] < 255
        /\ norm.pc = "flatten" => ~norm.hasAlpha
        /\ norm.flattened =>
              /\ ~norm.hasAlpha
              /\ \A k \in 1..(Len(norm.data) \div 4) : norm.data[4 * k] = 255
        /\ (norm.pc = "pass1" /\ ~norm.flattened) => norm.hasAlpha

\* an opaque image of two black pixels was found to have no alpha and was drawn over
\* the white fill; an image whose second pixel is translucent would not have been
OpaqueBlackImageFlattened ==
    /\ variant = 2
    /\ norm.pc = "pass1"
    /\ norm.flattened
    /\ bitmap.data = <<0, 0, 0, 255, 0, 0, 0, 255>>
    /\ norm.data = bitmap.data

----------------------------------------------------------------------------
(* Properties of the result aggregator *)

\* C21: the aggregator holds exactly one result for each row that shows a result and
\* none for any other row (queued, being processed, or failed), its results are in
\* the order in which their rows were queued, and the download button is enabled
\* exactly when the aggregator holds something.
AggregatorHoldsDoneInOrder ==
    /\ \A r \in Rows :
          Cardinality({i \in 1..Len(processedFiles) : processedFiles[i].id = r})
             = IF row[r] = "Done" THEN 1 ELSE 0
    /\ \A i, j \in 1..Len(processedFiles) :
          i < j => processedFiles[i].id < processedFiles[j].id
    /\ downloadDisabled <=> Len(processedFiles) = 0

\* two items have ended Done: the aggregator holds the first one's result, then the
\* second one's, and the download button is enabled
TwoResultsInQueueOrder ==
    /\ row[1] = "Done" /\ row[2] = "Done"
    /\ Len(processedFiles) = 2
    /\ processedFiles[1].id = 1 /\ processedFiles[2].id = 2
    /\ ~downloadDisabled

----------------------------------------------------------------------------
(* Properties of the controller's reduction *)

\* C22: the controller takes the reduction of the first encode against the size of
\* the file the user gave: measured against that size the first encode is insufficient
\* whenever a second one is started and sufficient whenever it is accepted, and the
\* quality of the second encode is the one computed from that reduction.
ReductionIsOfSubmittedSize ==
    [][\A r \in DOMAIN task :
          task[r].pc = "pass1" =>
             /\ (r \in DOMAIN task' /\ task'[r].pc = "pass2") =>
                   /\ NeedsSecondPass(task[r].size, task'[r].size1)
                   /\ task'[r].quality = SecondPassQuality(task[r].size, task'[r].size1)
             /\ (r \in DOMAIN task' /\ task'[r].pc = "close") =>
                   ~NeedsSecondPass(task[r].size, task'[r].size1)
             /\ row'[r] = "Done" =>
                   ~NeedsSecondPass(task[r].size, Last(processedFiles').size)]_vars

\* C23: an item is encoded at most twice, one encode at a time.  The second encode is
\* started only by the step in which the first one has settled with its output and
\* that output has failed the acceptance test of the build or handler.  A result is
\* given (the row shows Done, the handler answers 200) only by a step that accepts
\* the first output or that ends the second encode.
ControllerStateMachine ==
    [][/\ \A r \in DOMAIN task \cap DOMAIN task' :
            /\ task'[r].encodes \in {task[r].encodes, task[r].encodes + 1}
            /\ task'[r].encodes <= 2
            /\ task'[r].encodes = 2 /\ task[r].encodes = 1 =>
                  /\ task[r].pc = "pass1" /\ task'[r].pc = "pass2"
                  /\ task'[r].size1 > 0
                  /\ IF variant = 1
                     THEN /\ 5 * (task[r].blob - task'[r].size1) < 3 * task[r].blob
                          /\ task'[r].size1 >= 75 * 1024
                     ELSE 10 * (task[r].size - task'[r].size1) < 3 * task[r].size
       /\ \A r \in Rows :
            (row[r] # "Done" /\ row'[r] = "Done") =>
               /\ r \in DOMAIN task
               /\ LET t == task[r]
                      out == Last(processedFiles') IN
                  \/ /\ variant = 1 /\ t.pc = "close" /\ t.encodes = 1 /\ t.chosen = 1
                     /\ \/ 5 * (t.blob - t.size1) >= 3 * t.blob
                        \/ t.size1 < 75 * 1024
                  \/ variant = 1 /\ t.pc = "close" /\ t.encodes = 2 /\ t.size2 > 0
                  \/ /\ variant = 2 /\ t.pc = "pass1" /\ t.encodes = 1
                     /\ 10 * (t.size - out.size) >= 3 * t.size
                  \/ variant = 2 /\ t.pc = "pass2" /\ t.encodes = 2
       /\ codecCalls' <= 3
       /\ (hpc # "pass2" /\ hpc' = "pass2") =>
               /\ hpc = "pass1" /\ codecCalls = 2 /\ avifBuffer1' > 0
               /\ IF server = "optimise"
                  THEN /\ 5 * (event.length - avifBuffer1') < 3 * event.length
                       /\ avifBuffer1' >= 75 * 1024
                  ELSE 2 * (event.length - avifBuffer1') < event.length
       /\ (hpc # "done" /\ hpc' = "done" /\ response'.statusCode = 200) =>
               \/ /\ hpc = "pass1" /\ codecCalls = 2
                  /\ IF server = "optimise"
                     THEN \/ 5 * (event.length - avifBuffer1') >= 3 * event.length
                          \/ avifBuffer1' < 75 * 1024
                     ELSE 2 * (event.length - avifBuffer1') >= event.length
               \/ hpc = "pass2" /\ codecCalls = 3]_vars

\* build 2 has given the result of an item whose first encode failed the test: the
\* output of its second encode
ResultAfterTwoEncodes ==
    /\ variant = 2
    /\ row[1] = "Done"
    /\ Len(processedFiles) >= 1
    /\ processedFiles[1].pass = 2

----------------------------------------------------------------------------
(* Properties of the transient resources *)

\* C24: when an item leaves processFile, by its result or by an error, the object URL
\* svgToPngFile made for it has been revoked and the ImagePool made for it has been
\* closed.  (A release is a call of its own, made before the step that ends the item.)
TransientResourcesReleased ==
    [][\A r \in DOMAIN task :
          r \notin DOMAIN task' => ~task[r].objectUrl /\ ~task[r].imagePool]_vars

----------------------------------------------------------------------------
(* Properties of build 2's second-pass quality *)

----------------------------------------------------------------------------
(* Properties of the request timer *)

\* C26: once the handler has returned its response, the timer processWithTimeout
\* made for the request is not pending: it has fired or it has been cleared.
NoTimerArmedAfterResponse ==
    hpc = "done" => ~timerArmed

\* optimise.cjs has answered 200 with the output of a second encode, and the timer it
\* made for the request is not pending
TwoPassAnsweredTimerCleared ==
    /\ server = "optimise"
    /\ hpc = "done"
    /\ codecCalls = 3
    /\ response.statusCode = 200
    /\ response.processed = "two-pass"
    /\ ~timerArmed

====
